---- MODULE Spec2Model ----
(***************************************************************************)
(* Model of src/src/pages/home.rs of shapelsbook: the position/offset      *)
(* arithmetic (position_to_offset, range_to_offsets), the per-line         *)
(* segmentation (split_lines_with_metadata) and the CodeInput component's  *)
(* event handlers.                                                         *)
(*                                                                         *)
(* A Rust &str is a sequence of UTF-8 bytes; offsets are byte offsets and  *)
(* Position.character counts chars (scalar values).  Option<T> is the      *)
(* empty sequence (None) or a one-element sequence (Some).                 *)
(***************************************************************************)
EXTENDS Integers, Sequences, FiniteSets, TLC

VARIABLES
    \* a text and the positions converted on it (position_to_offset)
    src, pos, offset, prev_pos, prev_offset, converted,
    \* the CodeInput component: its signals, its stored analysis, what its
    \* two reactive closures rendered last, and the DOM it measures
    code, analysis_store, hover_popup, overlay, popup_view, dom,
    \* history: the overlay rendered before the last one, the last event
    \* and its pointer, the number of events and of the effects they had
    prev_overlay, last_event, last_pointer, hover_source,
    text_changes, snapshot_writes, segment_runs

pos_vars == <<src, pos, offset, prev_pos, prev_offset, converted>>

component_vars == <<code, analysis_store, hover_popup, overlay, popup_view, dom>>

history_vars == <<prev_overlay, last_event, last_pointer, hover_source,
                  text_changes, snapshot_writes, segment_runs>>

vars == <<pos_vars, component_vars, history_vars>>

----------------------------------------------------------------------------
(* Bounds of the explored inputs *)

MaxLen == 3

MaxLine == 2

MaxChar == 1

\* diagnostics plus hover entries of one analysis
MaxEntries == 2

\* text-change events of one run
MaxChanges == 2

\* input events that leave the text as it is, per mounted component
MaxRerenders == 1

----------------------------------------------------------------------------
(* Option<T> *)

None == <<>>

Some(x) == <<x>>

IsSome(o) == o # <<>>

Unwrap(o) == o[1]

----------------------------------------------------------------------------
(* Strings as UTF-8 byte sequences *)

\* '\n'
NL == 10

\* the chars texts are built from: 'a', '\n' and the two-byte char U+00E9
AsciiChars == { <<97>>, <<NL>> }

Chars == AsciiChars \cup { <<195, 169>> }

RECURSIVE StringsOfChars(_, _)
StringsOfChars(chars, n) ==
    IF n = 0 THEN { <<>> }
    ELSE LET shorter == StringsOfChars(chars, n - 1)
         IN  shorter \cup { s \o c : s \in shorter, c \in chars }

\* the texts of at most MaxLen one-byte chars, and those of fewer chars with
\* two-byte chars among them
Texts == StringsOfChars(AsciiChars, MaxLen) \cup StringsOfChars(Chars, MaxLen - 1)

\* a UTF-8 continuation byte never starts a char
IsCharStart(b) == ~(b >= 128 /\ b <= 191)

\* str::is_char_boundary, i a 0-based byte index
is_char_boundary(s, i) ==
    \/ i = 0
    \/ i = Len(s)
    \/ i > 0 /\ i < Len(s) /\ IsCharStart(s[i + 1])

\* 1-based index of the first '\n' of s, 0 when there is none
FirstNL(s) ==
    IF \E i \in 1..Len(s) : s[i] = NL
    THEN CHOOSE i \in 1..Len(s) : s[i] = NL /\ \A j \in 1..(i - 1) : s[j] # NL
    ELSE 0

\* str::split_inclusive('\n'): each piece keeps its terminator, no trailing
\* empty piece
RECURSIVE split_inclusive(_)
split_inclusive(s) ==
    IF s = <<>> THEN <<>>
    ELSE LET i == FirstNL(s)
         IN  IF i = 0 THEN <<s>>
             ELSE <<SubSeq(s, 1, i)>> \o split_inclusive(SubSeq(s, i + 1, Len(s)))

\* str::split('\n'): pieces without terminators, a trailing terminator is
\* followed by one empty piece, the empty string is one empty piece
RECURSIVE split(_)
split(s) ==
    LET i == FirstNL(s)
    IN  IF i = 0 THEN <<s>>
        ELSE <<SubSeq(s, 1, i - 1)>> \o split(SubSeq(s, i + 1, Len(s)))

\* what str::lines does to one piece of split_inclusive('\n'): strip the
\* "\n" and then a "\r" before it
strip_line_ending(l) ==
    LET a == IF Len(l) > 0 /\ l[Len(l)] = NL THEN SubSeq(l, 1, Len(l) - 1) ELSE l
    IN  IF Len(a) < Len(l) /\ Len(a) > 0 /\ a[Len(a)] = 13
        THEN SubSeq(a, 1, Len(a) - 1) ELSE a

\* str::lines
lines_of(s) ==
    LET p == split_inclusive(s)
    IN  [i \in 1..Len(p) |-> strip_line_ending(p[i])]

ends_with_newline(s) == Len(s) > 0 /\ s[Len(s)] = NL

\* str::char_indices: the 0-based byte index of every char, in order
RECURSIVE char_indices_from(_, _)
char_indices_from(s, i) ==
    IF i > Len(s) THEN <<>>
    ELSE IF IsCharStart(s[i]) THEN <<i - 1>> \o char_indices_from(s, i + 1)
    ELSE char_indices_from(s, i + 1)

char_indices(s) == char_indices_from(s, 1)

RECURSIVE SumLen(_, _)
SumLen(ls, n) == IF n = 0 THEN 0 ELSE Len(ls[n]) + SumLen(ls, n - 1)

----------------------------------------------------------------------------
(* lsp_types::Position and Range *)

Position(l, c) == [line |-> l, character |-> c]

Positions == { Position(l, c) : l \in 0..MaxLine, c \in 0..MaxChar }

Range(s, e) == [start |-> s, end |-> e]

Ranges == { Range(s, e) : s \in Positions, e \in Positions }

----------------------------------------------------------------------------
(* position_to_offset, range_to_offsets *)

\* the body of the loop for the line the position names (home.rs 82-94):
\* the byte index of the character-th char of the line, the line's length
\* when character equals the number of chars the loop stepped over, else None
position_in_line(line, line_offset, character) ==
    LET ci == char_indices(line)
    IN  IF character < Len(ci) THEN Some(line_offset + ci[character + 1])
        ELSE IF character = Len(ci) THEN Some(line_offset + Len(line))
        ELSE None

\* the end-of-file case after the loop (home.rs 98-101)
end_of_file(s, p) ==
    IF p.line = Len(lines_of(s)) /\ p.character = 0 THEN Some(Len(s)) ELSE None

position_to_offset(s, p) ==
    LET ls == split_inclusive(s)
    IN  IF p.line < Len(ls)
        THEN position_in_line(ls[p.line + 1], SumLen(ls, p.line), p.character)
        ELSE end_of_file(s, p)

Min(a, b) == IF a <= b THEN a ELSE b

Max(a, b) == IF a >= b THEN a ELSE b

\* range_to_offsets with an end that does not map taken as the end of the text
range_to_offsets_end_or_len(s, range) ==
    LET start == position_to_offset(s, range.start)
        end == position_to_offset(s, range.end)
    IN  IF ~IsSome(start) THEN None
        ELSE IF ~IsSome(end) THEN Some(<<Unwrap(start), Len(s)>>)
        ELSE Some(<<Min(Unwrap(start), Unwrap(end)), Max(Unwrap(end), Unwrap(start))>>)

range_to_offsets(s, range) ==
    LET start == position_to_offset(s, range.start)
        end == position_to_offset(s, range.end)
    IN  IF ~IsSome(start) \/ ~IsSome(end) THEN None
        ELSE Some(<<Min(Unwrap(start), Unwrap(end)), Max(Unwrap(end), Unwrap(start))>>)

----------------------------------------------------------------------------
(* The analyzer's output (shapels::analyze_source): diagnostics and hover  *)
(* entries in line/character coordinates                                   *)

Messages == { "m1", "m2" }

Diagnostic(r, m) == [range |-> r, message |-> m]

\* shapels::HoverInfo: an optional shape, which renders to a string and has
\* an optional dtype
NoShape == [shape |-> None]

F32Shape == [shape |-> Some([render |-> "[2, 3]", dtype |-> Some("float32")])]

HoverEntry(r, i) == <<r, i>>

\* format!("B{}B: {}", shape.render(), shape.dtype.as_deref().unwrap_or(""))
\* where B is the backquote char, as the sequence of the pieces of the
\* formatted string ("BQ" is the backquote)
render_hover_text(info) ==
    IF IsSome(info.shape)
    THEN LET shape == Unwrap(info.shape)
         IN  <<"BQ", shape.render, "BQ", ": ",
               IF IsSome(shape.dtype) THEN Unwrap(shape.dtype) ELSE "">>
    ELSE <<"hover unavailable">>

----------------------------------------------------------------------------
(* split_lines_with_metadata *)

\* Vec::sort_by_key(|(s, _, _)| *s): a stable sort on the start offset
RECURSIVE insert_by_start(_, _)
insert_by_start(sorted, x) ==
    IF sorted = <<>> THEN <<x>>
    ELSE IF sorted[Len(sorted)][1] <= x[1] THEN Append(sorted, x)
    ELSE Append(insert_by_start(SubSeq(sorted, 1, Len(sorted) - 1), x),
                sorted[Len(sorted)])

RECURSIVE sort_by_start(_)
sort_by_start(v) ==
    IF v = <<>> THEN <<>>
    ELSE insert_by_start(sort_by_start(SubSeq(v, 1, Len(v) - 1)), v[Len(v)])

\* diagnostics.iter().filter_map(|d| range_to_offsets(code, &d.range)
\*     .map(|(s, e)| (s, e, d.message.clone()))).collect()
RECURSIVE map_diagnostics(_, _)
map_diagnostics(text, diagnostics) ==
    IF diagnostics = <<>> THEN <<>>
    ELSE LET d == diagnostics[1]
             o == range_to_offsets(text, d.range)
             rest == map_diagnostics(text, Tail(diagnostics))
         IN  IF IsSome(o)
             THEN <<<<Unwrap(o)[1], Unwrap(o)[2], d.message>>>> \o rest
             ELSE rest

\* hover_entries.iter().filter_map(|(range, info)| range_to_offsets(text, range)
\*     .map(|(s, e)| (s, e, render_hover_text(info)))).collect()
RECURSIVE map_hover_entries(_, _)
map_hover_entries(text, hover_entries) ==
    IF hover_entries = <<>> THEN <<>>
    ELSE LET h == hover_entries[1]
             o == range_to_offsets(text, h[1])
             rest == map_hover_entries(text, Tail(hover_entries))
         IN  IF IsSome(o)
             THEN <<<<Unwrap(o)[1], Unwrap(o)[2], render_hover_text(h[2])>>>> \o rest
             ELSE rest

diag_ranges_of(text, diagnostics) == sort_by_start(map_diagnostics(text, diagnostics))

hover_ranges_of(text, hover_entries) ==
    sort_by_start(map_hover_entries(text, hover_entries))

\* the boundaries without the line's end
initial_boundaries_start_only(line_start, line_end) == <<line_start>>

\* vec![line_start, line_end]
initial_boundaries(line_start, line_end) == <<line_start, line_end>>

\* (*s).max(line_start).min(line_end)
clip(x, line_start, line_end) == Min(Max(x, line_start), line_end)

\* the pushes of the loop over diag_ranges.iter().chain(hover_ranges.iter())
RECURSIVE push_boundaries(_, _, _, _)
push_boundaries(boundaries, ranges, line_start, line_end) ==
    IF ranges = <<>> THEN boundaries
    ELSE LET start == clip(ranges[1][1], line_start, line_end)
             end == clip(ranges[1][2], line_start, line_end)
         IN  push_boundaries(
                 IF start < end THEN boundaries \o <<start, end>> ELSE boundaries,
                 Tail(ranges), line_start, line_end)

\* Vec<usize>::sort_unstable
RECURSIVE insert_sorted(_, _)
insert_sorted(sorted, x) ==
    IF sorted = <<>> THEN <<x>>
    ELSE IF sorted[Len(sorted)] <= x THEN Append(sorted, x)
    ELSE Append(insert_sorted(SubSeq(sorted, 1, Len(sorted) - 1), x),
                sorted[Len(sorted)])

RECURSIVE sort_unstable(_)
sort_unstable(v) ==
    IF v = <<>> THEN <<>>
    ELSE insert_sorted(sort_unstable(SubSeq(v, 1, Len(v) - 1)), v[Len(v)])

\* Vec::dedup: drops an element equal to the one before it
RECURSIVE dedup(_)
dedup(v) ==
    IF Len(v) <= 1 THEN v
    ELSE LET front == dedup(SubSeq(v, 1, Len(v) - 1))
         IN  IF front[Len(front)] = v[Len(v)] THEN front ELSE Append(front, v[Len(v)])

\* line[a..b] with a, b 0-based byte indices: None stands for the panic of a
\* range that is out of bounds, inverted or not on char boundaries
str_slice(line, a, b) ==
    IF a >= 0 /\ a <= b /\ b <= Len(line)
       /\ is_char_boundary(line, a) /\ is_char_boundary(line, b)
    THEN Some(SubSeq(line, a + 1, b))
    ELSE None

\* the overlap test with <= for <: a range that only touches the segment tags it
has_diag_touching(diag_ranges, seg_start, seg_end) ==
    \E i \in 1..Len(diag_ranges) :
        seg_start <= diag_ranges[i][2] /\ seg_end >= diag_ranges[i][1]

\* diag_ranges.iter().any(|(s, e, _)| seg_start < *e && seg_end > *s)
has_diag_of(diag_ranges, seg_start, seg_end) ==
    \E i \in 1..Len(diag_ranges) :
        seg_start < diag_ranges[i][2] /\ seg_end > diag_ranges[i][1]

\* the loop over boundaries.windows(2), from window k on: each segment is
\* [text (an Option: None where the slice panics), has_diag]
RECURSIVE window_segments(_, _, _, _, _)
window_segments(boundaries, k, line, line_start, diag_ranges) ==
    IF k + 1 > Len(boundaries) THEN <<>>
    ELSE LET seg_start == boundaries[k]
             seg_end == boundaries[k + 1]
             rest == window_segments(boundaries, k + 1, line, line_start, diag_ranges)
         IN  IF seg_start >= seg_end THEN rest
             ELSE <<[text |-> str_slice(line, seg_start - line_start,
                                        seg_end - line_start),
                     has_diag |-> has_diag_of(diag_ranges, seg_start, seg_end)]>>
                  \o rest

\* if segments.is_empty() { segments.push(RenderSegment { text: line, has_diag: false }) }
or_whole_line(segments, line) ==
    IF segments = <<>> THEN <<[text |-> Some(line), has_diag |-> FALSE]>>
    ELSE segments

\* a Vec::push in place of the insert: equal messages are kept
hash_set_push(set, value) == Append(set, value)

\* HashSet::insert on the set kept as the sequence of its elements: a
\* value the set holds already is not added
hash_set_insert(set, value) ==
    IF \E i \in 1..Len(set) : set[i] = value THEN set ELSE Append(set, value)

\* the HashSet the loop over diag_ranges fills (home.rs 186-191)
RECURSIVE virtual_text_set(_, _, _)
virtual_text_set(diag_ranges, line_start, line_end) ==
    IF diag_ranges = <<>> THEN <<>>
    ELSE LET d == diag_ranges[Len(diag_ranges)]
             before == virtual_text_set(SubSeq(diag_ranges, 1, Len(diag_ranges) - 1),
                                        line_start, line_end)
         IN  IF d[1] < line_end /\ d[2] > line_start
             THEN hash_set_insert(before, d[3]) ELSE before

\* HashSet::into_iter().collect(): the elements of the set in the order of
\* its hasher (RandomState, seeded anew for every HashSet::new()): every
\* order is possible
into_iter_orders(set) ==
    { [i \in 1..Len(set) |-> set[p[i]]] :
        p \in { q \in [1..Len(set) -> 1..Len(set)] :
                  \A i, j \in 1..Len(set) : i # j => q[i] # q[j] } }

\* one iteration of the loop over code.split('\n'), up to the order of the
\* virtual texts
line_segments(line, line_start, diag_ranges, hover_ranges) ==
    LET line_end == line_start + Len(line)
        boundaries == dedup(sort_unstable(
            push_boundaries(initial_boundaries(line_start, line_end),
                            diag_ranges \o hover_ranges, line_start, line_end)))
    IN  or_whole_line(window_segments(boundaries, 1, line, line_start, diag_ranges), line)

\* line_start = line_end + 1 (accounts for the stripped '\n')
next_line_start(line_end) == line_end + 1

\* line_start of the k-th piece (1-based) of code.split('\n')
RECURSIVE line_start_of(_, _)
line_start_of(pieces, k) ==
    IF k = 1 THEN 0
    ELSE next_line_start(line_start_of(pieces, k - 1) + Len(pieces[k - 1]))

\* the LineRender pushed after the loop when code ends with '\n'
trailing_line == [segments |-> <<[text |-> <<>>, has_diag |-> FALSE]>>,
                  virtual_texts |-> <<>>]

\* the Vec<LineRender>s the loop can have pushed after k iterations
RECURSIVE loop_lines(_, _, _, _)
loop_lines(pieces, k, diag_ranges, hover_ranges) ==
    IF k = 0 THEN { <<>> }
    ELSE LET line_start == line_start_of(pieces, k)
             segs == line_segments(pieces[k], line_start, diag_ranges, hover_ranges)
             texts == virtual_text_set(diag_ranges, line_start,
                                       line_start + Len(pieces[k]))
         IN  { Append(before,
                      [segments |-> [i \in 1..Len(segs) |->
                                        [text |-> Unwrap(segs[i].text),
                                         has_diag |-> segs[i].has_diag]],
                       virtual_texts |-> vt]) :
                   before \in loop_lines(pieces, k - 1, diag_ranges, hover_ranges),
                   vt \in into_iter_orders(texts) }

\* whether a slice of some iteration panics
loop_panics(pieces, diag_ranges, hover_ranges) ==
    \E k \in 1..Len(pieces) :
        LET segs == line_segments(pieces[k], line_start_of(pieces, k),
                                  diag_ranges, hover_ranges)
        IN  \E i \in 1..Len(segs) : ~IsSome(segs[i].text)

Panicked == [panicked |-> TRUE, lines |-> <<>>]

Returned(lines) == [panicked |-> FALSE, lines |-> lines]

\* every outcome a call can have: a panic, or the returned Vec<LineRender>
split_lines_with_metadata(text, diagnostics, hover_entries) ==
    LET diag_ranges == diag_ranges_of(text, diagnostics)
        hover_ranges == hover_ranges_of(text, hover_entries)
        pieces == split(text)
    IN  IF loop_panics(pieces, diag_ranges, hover_ranges) THEN { Panicked }
        ELSE { Returned(IF ends_with_newline(text) THEN Append(ls, trailing_line) ELSE ls) :
                 ls \in loop_lines(pieces, Len(pieces), diag_ranges, hover_ranges) }

----------------------------------------------------------------------------
(* The CodeInput component *)

\* what analyze_source returned for a text: the diagnostics and the hover
\* entries; source (not a field of the code's value) records the text
Analysis(text, diagnostics, hover_entries) ==
    [source |-> text, diagnostics |-> diagnostics, hover_entries |-> hover_entries]

\* the DOM state the handlers read: whether text_ref and measure_ref are
\* mounted and the computed style can be read, the measure span's
\* offset_width and offset_height, the textarea's padding-left and scroll
\* offsets, and the overlay's scroll offsets
Dom(m, w, h, pl, sl, st, ol, ot) ==
    [measurable |-> m, char_w |-> w, line_h |-> h, pad_left |-> pl,
     scroll_left |-> sl, scroll_top |-> st,
     overlay_scroll_left |-> ol, overlay_scroll_top |-> ot]

\* measure_metrics: (char_w, line_h, pad_left) or None (pad_top is unused by
\* both callers)
measure_metrics(d) ==
    IF d.measurable THEN Some(<<d.char_w, d.line_h, d.pad_left>>) ELSE None

\* analysis.hover(pos) of the shapels crate: what it returns is not decided
\* here; it is none or the HoverInfo of a hover entry of the analysis
hover_results(analysis, position) ==
    { None } \cup { Some(analysis.hover_entries[i][2]) :
                      i \in 1..Len(analysis.hover_entries) }

\* the closure that renders the popup (home.rs 326-353): twice the left
\* coordinate is kept, char_w * 0.5 being a half
place_popup(popup, d) ==
    IF ~IsSome(popup) THEN None
    ELSE LET line == Unwrap(popup)[1]
             x == Unwrap(popup)[2]
             text == Unwrap(popup)[3]
             m == measure_metrics(d)
         IN  IF IsSome(m)
             THEN Some([top |-> line * Unwrap(m)[2] - d.scroll_top,
                        left_x2 |-> 2 * (x - d.scroll_left + 8 + Unwrap(m)[3])
                                    + Unwrap(m)[1],
                        text |-> text])
             ELSE Some([top |-> 0, left_x2 |-> 0, text |-> text])

\* analysis_store.set_value(Rc::new(analyze_source(&code.get())))
set_value(stored, analysis) == analysis

\* the overlay closure reading hover_popup too: every signal runs it
overlay_reads_any(signal) == TRUE

\* the signals the overlay closure (home.rs 232-282) reads, and so is run
\* again for: code.get() alone (analysis_store is no signal)
overlay_reads(signal) == signal = "code"

\* the signals the popup closure (home.rs 326-353) reads: hover_popup.get()
popup_reads(signal) == signal = "hover_popup"

\* the overlay closure: it stores the analysis of the text and segments the
\* text with the stored analysis
RenderOverlay(text, analysis) ==
    /\ analysis_store' = set_value(analysis_store, analysis)
    /\ snapshot_writes' = snapshot_writes + 1
    /\ overlay' \in split_lines_with_metadata(text, analysis_store'.diagnostics,
                                               analysis_store'.hover_entries)
    /\ prev_overlay' = overlay
    /\ segment_runs' = segment_runs + 1

\* what setting a signal runs: the closures that read it; analysis is what
\* analyze_source returns for the code the overlay closure reads
RunClosures(signal, analysis) ==
    /\ IF overlay_reads(signal) THEN RenderOverlay(code', analysis)
       ELSE UNCHANGED <<analysis_store, snapshot_writes, overlay, prev_overlay,
                        segment_runs>>
    /\ IF popup_reads(signal) THEN popup_view' = place_popup(hover_popup', dom')
       ELSE UNCHANGED popup_view

\* an input event of the textarea: bind:value sets the code signal
TextChange(text, analysis) ==
    /\ text_changes < MaxChanges
    /\ code' = text
    /\ UNCHANGED <<hover_popup, dom>>
    /\ RunClosures("code", analysis)
    /\ text_changes' = text_changes + 1
    /\ last_event' = "input"
    /\ hover_source' = None
    /\ UNCHANGED last_pointer
    /\ UNCHANGED pos_vars

\* on:mousemove (home.rs 297-322) with the event's offset_x and offset_y;
\* analyze_source is a function of the text, so a closure that analysed the
\* unchanged code again would get the stored analysis
MouseMove(offset_x, offset_y) ==
    LET m == measure_metrics(dom)
        x == offset_x + dom.scroll_left
        y == offset_y + dom.scroll_top
    IN  /\ last_event' = "mousemove"
        /\ last_pointer' = <<offset_x, offset_y>>
        /\ UNCHANGED <<code, dom, text_changes>>
        /\ IF IsSome(m) /\ Unwrap(m)[1] > 0 /\ Unwrap(m)[2] > 0 /\ x >= 0 /\ y >= 0
           THEN LET line == y \div Unwrap(m)[2]
                    character == x \div Unwrap(m)[1]
                IN  /\ \E r \in hover_results(analysis_store, Position(line, character)) :
                          hover_popup' =
                              IF IsSome(r)
                              THEN Some(<<line, x, render_hover_text(Unwrap(r))>>)
                              ELSE None
                    /\ hover_source' = Some(analysis_store.source)
                    /\ RunClosures("hover_popup", analysis_store)
           ELSE /\ hover_source' = None
                /\ UNCHANGED <<hover_popup, popup_view, analysis_store, overlay,
                               prev_overlay, snapshot_writes, segment_runs>>
        /\ UNCHANGED pos_vars

\* on:mouseleave
MouseLeave ==
    /\ hover_popup' = None
    /\ UNCHANGED <<code, dom, text_changes, last_pointer>>
    /\ RunClosures("hover_popup", analysis_store)
    /\ last_event' = "mouseleave"
    /\ hover_source' = None
    /\ UNCHANGED pos_vars

\* the user scrolls the textarea to scroll_top, and on:scroll copies the
\* textarea's scroll offsets to the overlay when both nodes are mounted
Scroll(scroll_top) ==
    /\ dom.scroll_top # scroll_top
    /\ dom' = [dom EXCEPT !.scroll_top = scroll_top,
                          !.overlay_scroll_top =
                              IF dom.measurable THEN scroll_top ELSE @,
                          !.overlay_scroll_left =
                              IF dom.measurable THEN dom.scroll_left ELSE @]
    /\ last_event' = "scroll"
    /\ hover_source' = None
    /\ UNCHANGED <<code, analysis_store, hover_popup, overlay, popup_view,
                   prev_overlay, last_pointer,
                   text_changes, snapshot_writes, segment_runs>>
    /\ UNCHANGED pos_vars

\* the page's layout changes what the handlers will measure (the measure
\* span is hidden or shown, the nodes are mounted or not); no handler runs
Layout(measurable, char_w, line_h) ==
    /\ <<dom.measurable, dom.char_w, dom.line_h>> # <<measurable, char_w, line_h>>
    /\ dom' = [dom EXCEPT !.measurable = measurable, !.char_w = char_w,
                          !.line_h = line_h]
    /\ last_event' = "layout"
    /\ hover_source' = None
    /\ UNCHANGED <<code, analysis_store, hover_popup, overlay, popup_view,
                   prev_overlay, last_pointer,
                   text_changes, snapshot_writes, segment_runs>>
    /\ UNCHANGED pos_vars

\* the component once mounted with initial_code: analysis_store holds the
\* analysis of the code and the overlay closure has run once; the counters
\* count from here
Mounted(text, analysis) ==
    /\ code = text
    /\ analysis_store = analysis
    /\ overlay \in split_lines_with_metadata(text, analysis.diagnostics,
                                              analysis.hover_entries)
    /\ prev_overlay = Returned(<<>>)
    /\ hover_popup = None
    /\ popup_view = None
    /\ last_event = "mount"
    /\ last_pointer = <<0, 0>>
    /\ hover_source = None
    /\ text_changes = 0
    /\ snapshot_writes = 0
    /\ segment_runs = 0

DefaultDom == Dom(TRUE, 8, 16, 0, 0, 0, 0, 0)

\* no position converted
NoConversion ==
    /\ src = <<>>
    /\ pos = Position(0, 0)
    /\ offset = None
    /\ prev_pos = Position(0, 0)
    /\ prev_offset = None
    /\ converted = 0

\* no component mounted
NoComponent ==
    /\ Mounted(<<>>, Analysis(<<>>, <<>>, <<>>))
    /\ dom = DefaultDom

----------------------------------------------------------------------------
(* Specification of the segmentation: a component mounted with any text    *)
(* and any analysis within the bounds; input events that leave the text as *)
(* it is run the overlay closure again on the same text and analysis.      *)

Diagnostics == { Diagnostic(r, m) : r \in Ranges, m \in Messages }

HoverEntries == { HoverEntry(r, NoShape) : r \in Ranges }

\* "abc" with a diagnostic on [0,1); "abcd" with a diagnostic on [0,2) and a
\* hover entry on [1,3); "ab\ncd" and "ab\ncd\n" without entries
ExampleAbc ==
    Analysis(<<97, 98, 99>>,
             <<Diagnostic(Range(Position(0, 0), Position(0, 1)), "m1")>>, <<>>)

ExampleAbcd ==
    Analysis(<<97, 98, 99, 100>>,
             <<Diagnostic(Range(Position(0, 0), Position(0, 2)), "m1")>>,
             <<HoverEntry(Range(Position(0, 1), Position(0, 3)), NoShape)>>)

ExampleAnalyses ==
    { ExampleAbc, ExampleAbcd,
      Analysis(<<97, 98, NL, 99, 100>>, <<>>, <<>>),
      Analysis(<<97, 98, NL, 99, 100, NL>>, <<>>, <<>>) }

InitSplit ==
    /\ NoConversion
    /\ dom = DefaultDom
    /\ \/ \E text \in Texts :
            \E nd \in 0..MaxEntries :
              \E nh \in 0..(MaxEntries - nd) :
                \E ds \in [1..nd -> Diagnostics], hs \in [1..nh -> HoverEntries] :
                   Mounted(text, Analysis(text, ds, hs))
       \/ \E analysis \in ExampleAnalyses : Mounted(analysis.source, analysis)

SameTextAgain ==
    /\ text_changes < MaxRerenders
    /\ TextChange(code, analysis_store)

NextSplit == SameTextAgain

SpecSplit == InitSplit /\ [][NextSplit]_vars

----------------------------------------------------------------------------
(* Specification of the component: mounted on a text, it receives input,   *)
(* pointer and scroll events in any order while the layout changes.        *)

UiTexts == { <<97>>, <<97, NL, 97>> }

\* what analyze_source may return for a text: nothing, or a diagnostic and
\* two hover entries on its first line
UiAnalyses(text) ==
    { Analysis(text, <<>>, <<>>),
      Analysis(text,
               <<Diagnostic(Range(Position(0, 0), Position(0, 1)), "m1")>>,
               <<HoverEntry(Range(Position(0, 0), Position(0, 1)), F32Shape),
                 HoverEntry(Range(Position(1, 0), Position(1, 1)), NoShape)>>) }

\* the widths and heights the measure span may have, the scroll offsets of
\* the textarea, and the pointer offsets of a mousemove event
CharWidths == { 0, 8 }

LineHeights == { 0, 16 }

ScrollTops == { 0, 16 }

PointerXs == { -1, 20 }

PointerYs == { -1, 5 }

Init ==
    /\ NoConversion
    /\ dom = DefaultDom
    /\ \E text \in UiTexts : \E analysis \in UiAnalyses(text) : Mounted(text, analysis)

Next ==
    \/ \E text \in UiTexts : \E analysis \in UiAnalyses(text) : TextChange(text, analysis)
    \/ \E offset_x \in PointerXs, offset_y \in PointerYs : MouseMove(offset_x, offset_y)
    \/ MouseLeave
    \/ \E scroll_top \in ScrollTops : Scroll(scroll_top)
    \/ \E measurable \in BOOLEAN, char_w \in CharWidths, line_h \in LineHeights :
           Layout(measurable, char_w, line_h)

Spec == Init /\ [][Next]_vars

----------------------------------------------------------------------------
(* Specification of the conversions: a text, and positions converted one   *)
(* after the other; the previous conversion is kept beside the latest.     *)

InitPos ==
    /\ src \in Texts
    /\ pos = Position(0, 0)
    /\ offset = None
    /\ prev_pos = Position(0, 0)
    /\ prev_offset = None
    /\ converted = 0
    /\ NoComponent

Convert ==
    \E p \in Positions :
        /\ pos' = p
        /\ offset' = position_to_offset(src, p)
        /\ prev_pos' = pos
        /\ prev_offset' = offset
        /\ converted' = IF converted = 0 THEN 1 ELSE 2
        /\ UNCHANGED src
        /\ UNCHANGED <<component_vars, history_vars>>

NextPos == Convert

SpecPos == InitPos /\ [][NextPos]_vars

----------------------------------------------------------------------------
(* Claims about position_to_offset *)

\* the number of lines of the text
LineCount(s) == Len(lines_of(s))

\* the number of chars of line l (0-based), its terminator not counted
LineUnits(s, l) == Len(char_indices(lines_of(s)[l + 1]))

\* the byte offset at which line l (0-based) ends, before its terminator
LineEndOffset(s, l) == SumLen(split_inclusive(s), l) + Len(lines_of(s)[l + 1])

EofSentinel(s) == Position(LineCount(s), 0)

\* C5: position_to_offset returns an offset, within [0, len(text)], exactly
\* when the line exists and character is at most the line's unit count, or
\* the position is the end-of-file sentinel {line: line count, character: 0};
\* character equal to the unit count gives the offset of the line's end, the
\* sentinel gives len(text); a character beyond the unit count, or a line
\* beyond the line count, gives none.
C5_PositionBounds ==
    converted >= 1 =>
        LET exists == pos.line < LineCount(src)
            inLine == exists /\ pos.character <= LineUnits(src, pos.line)
            eof == pos = EofSentinel(src)
        IN  /\ IsSome(offset) <=> (inLine \/ eof)
            /\ IsSome(offset) => Unwrap(offset) \in 0..Len(src)
            /\ (exists /\ pos.character = LineUnits(src, pos.line))
                   => offset = Some(LineEndOffset(src, pos.line))
            /\ eof => offset = Some(Len(src))

\* C6: two distinct positions that position_to_offset accepts, neither the
\* end-of-file sentinel, map to distinct offsets (what a round trip
\* position -> offset -> position of every accepted position needs).
C6_DistinctPositionsDistinctOffsets ==
    ( /\ converted = 2
      /\ IsSome(offset) /\ IsSome(prev_offset)
      /\ pos # prev_pos
      /\ pos # EofSentinel(src) /\ prev_pos # EofSentinel(src) )
        => offset # prev_offset

----------------------------------------------------------------------------
(* Claims about split_lines_with_metadata *)

\* the byte indices (1-based) of the line terminators of a text
NewlinesOf(text) == { j \in 1..Len(text) : text[j] = NL }

NewlineCount(text) == Cardinality(NewlinesOf(text))

\* the k-th terminator of the text
NthNewline(text, k) ==
    CHOOSE j \in NewlinesOf(text) :
        Cardinality({ x \in NewlinesOf(text) : x <= j }) = k

\* the physical lines of a text are numbered 1..NewlineCount + 1 (the last
\* one is what follows the last terminator, possibly nothing); the span of
\* line i in byte offsets, its terminator excluded
LineStartAt(text, i) == IF i = 1 THEN 0 ELSE NthNewline(text, i - 1)

LineEndAt(text, i) ==
    IF i <= NewlineCount(text) THEN NthNewline(text, i) - 1 ELSE Len(text)

LineTextAt(text, i) == SubSeq(text, LineStartAt(text, i) + 1, LineEndAt(text, i))

RECURSIVE ConcatSegments(_)
ConcatSegments(segments) ==
    IF segments = <<>> THEN <<>>
    ELSE segments[1].text \o ConcatSegments(Tail(segments))

\* the mapped (start, end) of the entries of the stored analysis
MappedDiagnostics ==
    { <<Unwrap(range_to_offsets(code, d.range))[1],
        Unwrap(range_to_offsets(code, d.range))[2], d.message>> :
        d \in { analysis_store.diagnostics[k] :
                  k \in { j \in 1..Len(analysis_store.diagnostics) :
                            IsSome(range_to_offsets(
                                code, analysis_store.diagnostics[j].range)) } } }

MappedHovers ==
    { Unwrap(range_to_offsets(code, h[1])) :
        h \in { analysis_store.hover_entries[k] :
                  k \in { j \in 1..Len(analysis_store.hover_entries) :
                            IsSome(range_to_offsets(
                                code, analysis_store.hover_entries[j][1])) } } }

PhysicalLines == 1..(NewlineCount(code) + 1)

\* C1: the call returns, and for every physical line the texts of the
\* segments of its LineRender, concatenated in order, are the line's text.
C1_Partition ==
    /\ ~overlay.panicked
    /\ Len(overlay.lines) >= NewlineCount(code) + 1
    /\ \A i \in PhysicalLines :
           ConcatSegments(overlay.lines[i].segments) = LineTextAt(code, i)

\* a text of several lines, one of them cut into two segments or more, with
\* a range that spans lines and a diagnostic whose range does not map
C1_Witness ==
    /\ ~overlay.panicked
    /\ NewlineCount(code) >= 1
    /\ \E i \in PhysicalLines : Len(overlay.lines[i].segments) >= 2
    /\ \E r \in MappedDiagnostics \cup MappedHovers :
           \E i \in PhysicalLines \ {1} : r[1] < LineStartAt(code, i) /\ r[2] >= LineStartAt(code, i)
    /\ \E k \in 1..Len(analysis_store.diagnostics) :
           ~IsSome(range_to_offsets(code, analysis_store.diagnostics[k].range))

\* C2: one LineRender per physical line of the text; a text that ends with a
\* terminator, so made of n terminated lines, yields n + 1 LineRenders, the
\* last one the empty line after the terminator: one empty untagged segment
\* and no virtual text.
C2_LineRenderCount ==
    /\ Len(overlay.lines) = NewlineCount(code) + 1
    /\ ends_with_newline(code) =>
           overlay.lines[Len(overlay.lines)] = trailing_line

\* C3: two calls on the same (text, diagnostics, hover entries) return the
\* same Vec<LineRender>, in every field of every line.
C3_SameInputSameLines ==
    text_changes >= 1 => overlay = prev_overlay

\* C4: the virtual_texts of every physical line hold exactly the messages of
\* the mapped diagnostics with start < lineEnd and end > lineStart, each
\* once; the LineRender after the last physical line holds none.
C4_VirtualTexts ==
    /\ ~overlay.panicked
    /\ \A i \in 1..Len(overlay.lines) :
           LET vt == overlay.lines[i].virtual_texts
           IN  /\ Cardinality({ vt[k] : k \in 1..Len(vt) }) = Len(vt)
               /\ { vt[k] : k \in 1..Len(vt) } =
                      IF i \in PhysicalLines
                      THEN { d[3] : d \in { m \in MappedDiagnostics :
                                              /\ m[1] < LineEndAt(code, i)
                                              /\ m[2] > LineStartAt(code, i) } }
                      ELSE {}

\* two diagnostics with the same message overlap a line that is cut into
\* two segments or more, and a diagnostic does not overlap some line
C4_Witness ==
    /\ ~overlay.panicked
    /\ Len(analysis_store.diagnostics) = 2
    /\ analysis_store.diagnostics[1].message = analysis_store.diagnostics[2].message
    /\ analysis_store.diagnostics[1].range # analysis_store.diagnostics[2].range
    /\ \E i \in PhysicalLines :
           /\ Len(overlay.lines[i].segments) >= 2
           /\ Len(overlay.lines[i].virtual_texts) = 1
           /\ Cardinality({ m \in MappedDiagnostics :
                              /\ m[1] < LineEndAt(code, i)
                              /\ m[2] > LineStartAt(code, i) }) = 2
    /\ \E i \in PhysicalLines : overlay.lines[i].virtual_texts = <<>>

RemoveAt(v, k) == SubSeq(v, 1, k - 1) \o SubSeq(v, k + 1, Len(v))

Swapped(range) == Range(range.end, range.start)

\* both positions of the range map, and the end maps before the start
IsInverted(text, range) ==
    /\ IsSome(position_to_offset(text, range.start))
    /\ IsSome(position_to_offset(text, range.end))
    /\ Unwrap(position_to_offset(text, range.end))
           < Unwrap(position_to_offset(text, range.start))

\* the start or the end of the range does not map
Unmapped(text, range) ==
    \/ ~IsSome(position_to_offset(text, range.start))
    \/ ~IsSome(position_to_offset(text, range.end))

\* C7: the call returns; a diagnostic or hover entry whose start or end does
\* not map changes nothing: the call returns what it returns for the input
\* without that entry (the same possible results, a call being free in the
\* order of a line's virtual texts); an entry whose range is inverted and
\* maps is taken as the range from its lesser to its greater offset: the
\* call returns what it returns with the entry's start and end exchanged.
C7_UnmappedEntryDropped ==
    LET ds == analysis_store.diagnostics
        hs == analysis_store.hover_entries
    IN  /\ ~overlay.panicked
        /\ \A k \in 1..Len(ds) :
               /\ Unmapped(code, ds[k].range)
                      => split_lines_with_metadata(code, ds, hs)
                             = split_lines_with_metadata(code, RemoveAt(ds, k), hs)
               /\ IsInverted(code, ds[k].range)
                      => split_lines_with_metadata(code, ds, hs)
                             = split_lines_with_metadata(
                                   code, [ds EXCEPT ![k].range = Swapped(@)], hs)
        /\ \A k \in 1..Len(hs) :
               /\ Unmapped(code, hs[k][1])
                      => split_lines_with_metadata(code, ds, hs)
                             = split_lines_with_metadata(code, ds, RemoveAt(hs, k))
               /\ IsInverted(code, hs[k][1])
                      => split_lines_with_metadata(code, ds, hs)
                             = split_lines_with_metadata(
                                   code, ds, [hs EXCEPT ![k][1] = Swapped(@)])

\* a diagnostic whose start maps and whose end does not, beside a hover entry
\* with an inverted range that cuts a line in two
C7_Witness ==
    /\ ~overlay.panicked
    /\ \E k \in 1..Len(analysis_store.diagnostics) :
           LET r == analysis_store.diagnostics[k].range
           IN  /\ IsSome(position_to_offset(code, r.start))
               /\ ~IsSome(position_to_offset(code, r.end))
    /\ \E k \in 1..Len(analysis_store.hover_entries) :
           IsInverted(code, analysis_store.hover_entries[k][1])
    /\ \E i \in PhysicalLines : Len(overlay.lines[i].segments) >= 2

ClipTo(x, lo, hi) == IF x < lo THEN lo ELSE IF x > hi THEN hi ELSE x

\* the boundaries of a line: its two ends, and the clipped ends of every
\* mapped range whose clipped span on the line is not empty
BoundariesOf(lo, hi) ==
    {lo, hi} \cup
    UNION { { ClipTo(r[1], lo, hi), ClipTo(r[2], lo, hi) } :
              r \in { m \in { <<d[1], d[2]>> : d \in MappedDiagnostics } \cup MappedHovers :
                        ClipTo(m[1], lo, hi) < ClipTo(m[2], lo, hi) } }

\* the byte offset at which segment k of a line that starts at lo starts
\* (k = Len + 1: at which the last one ends)
SegmentStart(segments, lo, k) == lo + Len(ConcatSegments(SubSeq(segments, 1, k - 1)))

Segment(text, has_diag) == [text |-> text, has_diag |-> has_diag]

\* C10: on every physical line that is not empty the segments are the spans
\* between adjacent boundaries, one per pair, none empty, each with the text
\* of its span, and a segment is tagged exactly when a mapped diagnostic has
\* start < segmentEnd and end > segmentStart (a hover range never tags); an
\* empty line, which has no such pair, is one empty untagged segment.
\* Diagnostic [0,1) on "abc" gives "a" tagged, "bc" untagged; diagnostic
\* [0,2) and hover [1,3) on "abcd" give "a", "b" tagged, "c", "d" untagged.
C10_BoundariesAndTags ==
    /\ ~overlay.panicked
    /\ Len(overlay.lines) >= NewlineCount(code) + 1
    /\ \A i \in PhysicalLines :
           LET segments == overlay.lines[i].segments
               lo == LineStartAt(code, i)
               hi == LineEndAt(code, i)
           IN  IF lo = hi THEN segments = <<Segment(<<>>, FALSE)>>
               ELSE /\ Len(segments) = Cardinality(BoundariesOf(lo, hi)) - 1
                    /\ { SegmentStart(segments, lo, k) : k \in 1..(Len(segments) + 1) }
                           = BoundariesOf(lo, hi)
                    /\ \A k \in 1..Len(segments) :
                           LET a == SegmentStart(segments, lo, k)
                               b == SegmentStart(segments, lo, k + 1)
                           IN  /\ a < b
                               /\ segments[k].text = SubSeq(code, a + 1, b)
                               /\ segments[k].has_diag <=>
                                      \E d \in MappedDiagnostics : d[1] < b /\ d[2] > a
    /\ analysis_store = ExampleAbc =>
           overlay.lines[1].segments =
               <<Segment(<<97>>, TRUE), Segment(<<98, 99>>, FALSE)>>
    /\ analysis_store = ExampleAbcd =>
           overlay.lines[1].segments =
               <<Segment(<<97>>, TRUE), Segment(<<98>>, TRUE),
                 Segment(<<99>>, FALSE), Segment(<<100>>, FALSE)>>

\* "abcd" with the diagnostic [0,2) and the hover entry [1,3), segmented
C10_Witness ==
    /\ analysis_store = ExampleAbcd
    /\ ~overlay.panicked
    /\ Len(overlay.lines[1].segments) = 4

\* the range maps, and clipped to physical line i of the text it is of zero
\* width (a range of zero width inside the line included)
CollapsesOn(text, range, i) ==
    /\ IsSome(range_to_offsets(text, range))
    /\ LET m == Unwrap(range_to_offsets(text, range))
           lo == LineStartAt(text, i)
           hi == LineEndAt(text, i)
       IN  ClipTo(m[1], lo, hi) >= ClipTo(m[2], lo, hi)

\* the segments of physical line i are what every call on these lists gives
\* for that line
SameSegmentsWith(i, diagnostics, hover_entries) ==
    \A o \in split_lines_with_metadata(code, diagnostics, hover_entries) :
        /\ ~o.panicked
        /\ o.lines[i].segments = overlay.lines[i].segments

\* C11: a diagnostic or hover range that is of zero width once clipped to a
\* line (a zero-width range inside the line included) adds no boundary and
\* no segment to that line: the line's segments, texts and tags, are those
\* of the same input without that range.
C11_DegenerateOverlap ==
    LET ds == analysis_store.diagnostics
        hs == analysis_store.hover_entries
    IN  /\ ~overlay.panicked
        /\ \A i \in PhysicalLines :
               /\ \A k \in 1..Len(ds) :
                      CollapsesOn(code, ds[k].range, i)
                          => SameSegmentsWith(i, RemoveAt(ds, k), hs)
               /\ \A k \in 1..Len(hs) :
                      CollapsesOn(code, hs[k][1], i)
                          => SameSegmentsWith(i, ds, RemoveAt(hs, k))

----------------------------------------------------------------------------
(* Claims about the CodeInput component *)

\* C8: the stored analysis is written once per text-change event, with the
\* analysis of the new text, and the text is segmented once per text-change
\* event: no pointer event writes the one or runs the other; a pointer-move
\* that resolves hover reads the stored analysis of the current text and
\* shows the text of one of its hover entries.
C8_SingleWriterSnapshot ==
    /\ snapshot_writes = text_changes
    /\ segment_runs = text_changes
    /\ analysis_store.source = code
    /\ IsSome(hover_source) =>
           /\ last_event = "mousemove"
           /\ hover_source = Some(code)
           /\ IsSome(hover_popup) =>
                  \E k \in 1..Len(analysis_store.hover_entries) :
                      Unwrap(hover_popup)[3]
                          = render_hover_text(analysis_store.hover_entries[k][2])

\* after two text changes, a pointer-move has resolved hover and shows a popup
C8_Witness ==
    /\ text_changes = 2
    /\ last_event = "mousemove"
    /\ IsSome(hover_source)
    /\ IsSome(hover_popup)

\* the metrics cannot be measured or are not strictly positive, or the
\* pointer's x or y (scroll offsets added) is negative
MetricsUnavailable ==
    \/ ~dom.measurable
    \/ dom.char_w <= 0
    \/ dom.line_h <= 0
    \/ last_pointer[1] + dom.scroll_left < 0
    \/ last_pointer[2] + dom.scroll_top < 0

\* C9: after a pointer-move with metrics that are unavailable or a negative
\* pointer coordinate, no hover popup is shown, whatever was shown before,
\* and no popup anchor is rendered.
C9_NoPopupWithoutMetrics ==
    (last_event = "mousemove" /\ MetricsUnavailable)
        => (hover_popup = None /\ popup_view = None)

====
